---- MODULE Spec2Model ----
(***************************************************************************)
(* Model of the auto-translate plugin (server/plugin.go): the preference   *)
(* store (getUserInfo / setUserInfo over the platform KV store), the       *)
(* MessageWillBePosted hook, and the HTTP surface served by ServeHTTP      *)
(* (getGo, getInfo, setInfo).                                              *)
(*                                                                         *)
(* Handlers that block on a remote call (the hook and getGo) are split at  *)
(* the remote calls, so that other handlers interleave with them.  A       *)
(* finished invocation stays visible in its slot (pc = "done") until it is *)
(* returned; nothing else moves while a finished invocation is observed.   *)
(*                                                                         *)
(* Spec is the whole plugin.  It is checked in three slices, each the      *)
(* handlers of one component together with what they interleave with:      *)
(* SpecPrefs (the preference endpoints), SpecHook (the hook and preference *)
(* writes) and SpecGo (the on-demand handler and post edits).              *)
(***************************************************************************)
EXTENDS Integers, Sequences, FiniteSets, TLC

VARIABLES store, events, kvWrites, posts, hook, req, cmd

vars == <<store, events, kvWrites, posts, hook, req, cmd>>

----------------------------------------------------------------------------
(* Bounds *)

\* at most this many change notifications are recorded
MaxEvents == 2
\* a post is edited at most this many times
MaxUpdateAt == 1

----------------------------------------------------------------------------
(* Values *)

\* user ids are platform ids: 26 ASCII characters, which JSON carries unchanged
U1 == "aaaaaaaaaaaaaaaaaaaaaaaaaa"
U2 == "bbbbbbbbbbbbbbbbbbbbbbbbbb"
ShortID == "short"

\* user ids a request body or a post may carry
UserIDs == {U1, U2, ShortID}
\* the Mattermost-User-ID header; "" is an unauthenticated caller
Callers == {"", U1, U2}

autoLanguage == "auto"
enLanguage == "en"

\* language code -> display name
languageCodes ==
    ("auto" :> "Auto") @@ ("en" :> "English") @@ ("fr" :> "French")

\* Go map lookup: the zero value "" for a missing key
LangName(code) ==
    IF code \in DOMAIN languageCodes THEN languageCodes[code] ELSE ""

\* language strings a preference may carry: empty, catalog codes, a code outside
\* the catalog
LangInputs == {"", "auto", "en", "fr", "xx"}
\* codes the detection capability may answer with
DetectCodes == {"en", "fr", "xx"}

Texts == {"Hello", "Bonjour"}

PostIDs == {"p1"}

apiErrorNoRecordFound == "no_record_found"

UserInfos ==
    [UserID : UserIDs, Activated : BOOLEAN,
     SourceLanguage : LangInputs, TargetLanguage : LangInputs]

\* the zero value of UserInfo
ZeroUserInfo ==
    [UserID |-> "", Activated |-> FALSE, SourceLanguage |-> "", TargetLanguage |-> ""]

----------------------------------------------------------------------------
(* UserInfo: validation and JSON *)

\* IsValid without the source = target check
IsValidNoEqualCheck(u) ==
    IF u.UserID = "" \/ Len(u.UserID) # 26 THEN "Invalid: user_id field"
    ELSE IF u.SourceLanguage = "" THEN "Invalid: source_language field"
    ELSE IF u.TargetLanguage = "" THEN "Invalid: target_language field"
    ELSE IF LangName(u.SourceLanguage) = ""
        THEN "Invalid: source_language must be in a supported language code"
    ELSE IF LangName(u.TargetLanguage) = ""
        THEN "Invalid: target_language must be in a supported language code"
    ELSE IF u.TargetLanguage = autoLanguage
        THEN "Invalid: target_language must not be \"auto\""
    ELSE ""

\* IsValid without the target = "auto" check
IsValidNoAutoCheck(u) ==
    IF u.UserID = "" \/ Len(u.UserID) # 26 THEN "Invalid: user_id field"
    ELSE IF u.SourceLanguage = "" THEN "Invalid: source_language field"
    ELSE IF u.TargetLanguage = "" THEN "Invalid: target_language field"
    ELSE IF LangName(u.SourceLanguage) = ""
        THEN "Invalid: source_language must be in a supported language code"
    ELSE IF LangName(u.TargetLanguage) = ""
        THEN "Invalid: target_language must be in a supported language code"
    ELSE IF u.SourceLanguage = u.TargetLanguage
        THEN "Invalid: source_language and target_language are equal"
    ELSE ""

\* the error message, "" for nil
IsValid(u) ==
    IF u.UserID = "" \/ Len(u.UserID) # 26 THEN "Invalid: user_id field"
    ELSE IF u.SourceLanguage = "" THEN "Invalid: source_language field"
    ELSE IF u.TargetLanguage = "" THEN "Invalid: target_language field"
    ELSE IF LangName(u.SourceLanguage) = ""
        THEN "Invalid: source_language must be in a supported language code"
    ELSE IF LangName(u.TargetLanguage) = ""
        THEN "Invalid: target_language must be in a supported language code"
    ELSE IF u.SourceLanguage = u.TargetLanguage
        THEN "Invalid: source_language and target_language are equal"
    ELSE IF u.TargetLanguage = autoLanguage
        THEN "Invalid: target_language must not be \"auto\""
    ELSE ""

\* json.Marshal of a UserInfo: the object's members in field order, under the
\* struct tags; a boolean is the token true / false
Marshal(u) ==
    << <<"user_id", u.UserID>>,
       <<"activated", IF u.Activated THEN "true" ELSE "false">>,
       <<"source_language", u.SourceLanguage>>,
       <<"target_language", u.TargetLanguage>> >>

\* the value of member key in the object, def when the object has no such member
Member(bytes, key, def) ==
    IF \E i \in 1..Len(bytes) : bytes[i][1] = key
    THEN bytes[CHOOSE i \in 1..Len(bytes) :
                 /\ bytes[i][1] = key
                 /\ \A j \in (i+1)..Len(bytes) : bytes[j][1] # key][2]
    ELSE def

\* Unmarshal reading the flag under another tag than Marshal writes
UnmarshalWrongTag(bytes) ==
    [UserID         |-> Member(bytes, "user_id", ""),
     Activated      |-> Member(bytes, "enabled", "false") = "true",
     SourceLanguage |-> Member(bytes, "source_language", ""),
     TargetLanguage |-> Member(bytes, "target_language", "")]

\* json.Unmarshal into a zero UserInfo
Unmarshal(bytes) ==
    [UserID         |-> Member(bytes, "user_id", ""),
     Activated      |-> Member(bytes, "activated", "false") = "true",
     SourceLanguage |-> Member(bytes, "source_language", ""),
     TargetLanguage |-> Member(bytes, "target_language", "")]

\* one API or remote call made by a handler
Call(op, a, b, c) == [op |-> op, a |-> a, b |-> b, c |-> c]

----------------------------------------------------------------------------
(* Preference store *)

\* KVGet(userID); <<>> is nil bytes
KVGet(userID) == IF userID \in DOMAIN store THEN store[userID] ELSE <<>>

\* getUserInfo: kvErr is the outcome of the KVGet call
getUserInfo(userID, kvErr) ==
    IF kvErr \/ KVGet(userID) = <<>>
    THEN [found |-> FALSE, info |-> ZeroUserInfo, err |-> apiErrorNoRecordFound]
    ELSE [found |-> TRUE, info |-> Unmarshal(KVGet(userID)), err |-> ""]

\* the info_change event published to the user's sessions
emitUserInfoChange(userInfo) ==
    [event           |-> "info_change",
     user_id         |-> userInfo.UserID,
     activated       |-> userInfo.Activated,
     source_language |-> userInfo.SourceLanguage,
     target_language |-> userInfo.TargetLanguage,
     broadcast       |-> userInfo.UserID]

\* setUserInfo publishing the change before it knows that the write succeeded
setUserInfoEmitFirst(userInfo, kvErr) ==
    IF IsValid(userInfo) # ""
    THEN [err |-> "invalid_user_info", store |-> store, events |-> events,
          kvWrites |-> kvWrites]
    ELSE IF kvErr
    THEN [err |-> "unable_to_save", store |-> store,
          events |-> Append(events, emitUserInfoChange(userInfo)),
          kvWrites |-> kvWrites]
    ELSE [err |-> "",
          store |-> [store EXCEPT ![userInfo.UserID] = Marshal(userInfo)],
          events |-> Append(events, emitUserInfoChange(userInfo)),
          kvWrites |-> kvWrites + 1]

\* setUserInfo writing a store that holds the new record only
setUserInfoDropsOthers(userInfo, kvErr) ==
    IF IsValid(userInfo) # ""
    THEN [err |-> "invalid_user_info", store |-> store, events |-> events,
          kvWrites |-> kvWrites]
    ELSE IF kvErr
    THEN [err |-> "unable_to_save", store |-> store, events |-> events,
          kvWrites |-> kvWrites]
    ELSE [err |-> "",
          store |-> [u \in DOMAIN store |->
                        IF u = userInfo.UserID THEN Marshal(userInfo) ELSE <<>>],
          events |-> Append(events, emitUserInfoChange(userInfo)),
          kvWrites |-> kvWrites + 1]

\* setUserInfo: kvErr is the outcome of the KVSet call.  The result carries the
\* returned error id ("" for nil) and the store, the events and the number of
\* KVSet writes after the call.
setUserInfo(userInfo, kvErr) ==
    IF IsValid(userInfo) # ""
    THEN [err |-> "invalid_user_info", store |-> store, events |-> events,
          kvWrites |-> kvWrites]
    ELSE IF kvErr
    THEN [err |-> "unable_to_save", store |-> store, events |-> events,
          kvWrites |-> kvWrites]
    ELSE [err |-> "",
          store |-> [store EXCEPT ![userInfo.UserID] = Marshal(userInfo)],
          events |-> Append(events, emitUserInfoChange(userInfo)),
          kvWrites |-> kvWrites + 1]

----------------------------------------------------------------------------
(* Remote capabilities *)

\* what the detection call can come back with: bad credentials, an API error,
\* or a list of candidate languages (possibly empty)
DetectOutcomes ==
    {[credErr |-> TRUE, apiErr |-> FALSE, langs |-> <<>>],
     [credErr |-> FALSE, apiErr |-> TRUE, langs |-> <<>>],
     [credErr |-> FALSE, apiErr |-> FALSE, langs |-> <<>>]}
    \cup {[credErr |-> FALSE, apiErr |-> FALSE, langs |-> <<c>>] : c \in DetectCodes}
    \cup {[credErr |-> FALSE, apiErr |-> FALSE, langs |-> <<c, d>>] :
              c \in DetectCodes, d \in DetectCodes}

\* what the translation call can come back with
TranslateOutcomes ==
    {[credErr |-> TRUE, apiErr |-> FALSE, text |-> ""],
     [credErr |-> FALSE, apiErr |-> TRUE, text |-> ""]}
    \cup {[credErr |-> FALSE, apiErr |-> FALSE, text |-> t] : t \in Texts}

\* detectLanguage: the first candidate, or an error
detectLanguage(out) ==
    IF out.credErr THEN [lang |-> "", err |-> "Invalid AWS credentials"]
    ELSE IF out.apiErr \/ Len(out.langs) = 0
        THEN [lang |-> "", err |-> "Failed to detect language"]
    ELSE [lang |-> out.langs[1], err |-> ""]

\* translateText: the translated text, or an error
translateText(out) ==
    IF out.credErr THEN [text |-> "", err |-> "BadCredentials"]
    ELSE IF out.apiErr THEN [text |-> "", err |-> "TranslationFailed"]
    ELSE [text |-> out.text, err |-> ""]

----------------------------------------------------------------------------
(* MessageWillBePosted *)

IdleHook ==
    [pc |-> "idle", input |-> "", post |-> [UserId |-> "", Message |-> ""],
     found |-> FALSE, userInfo |-> ZeroUserInfo,
     sourceLang |-> "", targetLang |-> "", calls |-> <<>>, reason |-> ""]

\* return post, reason
HookDone(h, reason) == [h EXCEPT !.pc = "done", !.reason = reason]

\* DisplayName without the fallback to the code
DisplayNameNoFallback(code) ==
    IF code \in DOMAIN languageCodes THEN languageCodes[code] ELSE ""

\* the display name of a code, the code itself when the catalog has none
DisplayName(code) ==
    IF code \in DOMAIN languageCodes THEN languageCodes[code] ELSE code

\* the annotated message body
Annotated(message, sourceLang, targetLang, translatedText) ==
    message \o "\n\n(Translated: " \o DisplayName(sourceLang) \o " → "
        \o DisplayName(targetLang) \o ")\n" \o translatedText

\* HookDispatch taking the target language from the store again
HookDispatchReadsAgain(h) ==
    LET now == getUserInfo(h.post.UserId, FALSE)
        tgt == IF now.found THEN now.info.TargetLanguage ELSE h.targetLang
    IN  IF h.sourceLang = tgt
        THEN HookDone(h, "")
        ELSE [h EXCEPT !.pc = "translate",
                       !.calls = Append(@, Call("translate", h.post.Message,
                                                h.sourceLang, tgt))]

\* lines 168-173: with the source language resolved, skip or call translateText
HookDispatch(h) ==
    IF h.sourceLang = h.targetLang
    THEN HookDone(h, "")
    ELSE [h EXCEPT !.pc = "translate",
                   !.calls = Append(@, Call("translate", h.post.Message,
                                            h.sourceLang, h.targetLang))]

\* HookSkips without the look at Activated
HookSkipsIgnoresActivated(r) == ~r.found

\* line 152: no preference could be read, or it is switched off
HookSkips(r) == ~r.found \/ ~r.info.Activated

\* NeedsDetection asking for detection whatever the source language is
NeedsDetectionAlways(sourceLang) == TRUE

\* line 160: the source language is to be detected
NeedsDetection(sourceLang) == sourceLang = autoLanguage

\* lines 150-166: look the poster's preference up, resolve the source language
HookLookup(post, kvErr) ==
    LET r == getUserInfo(post.UserId, kvErr)
        h == [IdleHook EXCEPT !.input = post.Message, !.post = post,
                              !.found = r.found, !.userInfo = r.info,
                              !.calls = <<Call("KVGet", post.UserId, "", "")>>]
    IN  IF HookSkips(r)
        THEN HookDone(h, "")
        ELSE LET g == [h EXCEPT !.sourceLang = r.info.SourceLanguage,
                                !.targetLang = r.info.TargetLanguage]
             IN  IF NeedsDetection(g.sourceLang)
                 THEN [g EXCEPT !.pc = "detect",
                                !.calls = Append(@, Call("detect", post.Message, "", ""))]
                 ELSE HookDispatch(g)

\* HookDetected going on to translate when detection failed
HookDetectedGoesOn(h, out) ==
    HookDispatch([h EXCEPT !.sourceLang = detectLanguage(out).lang])

\* HookDetected trying a failed detection a second time
HookDetectedRetries(h, out) ==
    LET d == detectLanguage(out)
        tried == Cardinality({i \in 1..Len(h.calls) : h.calls[i].op = "detect"})
    IN  IF d.err # "" /\ tried < 2
        THEN [h EXCEPT !.calls = Append(@, Call("detect", h.post.Message, "", ""))]
        ELSE IF d.err # ""
        THEN HookDone(h, "Failed to detect language")
        ELSE HookDispatch([h EXCEPT !.sourceLang = d.lang])

\* lines 161-166: detectLanguage has returned
HookDetected(h, out) ==
    LET d == detectLanguage(out)
    IN  IF d.err # ""
        THEN HookDone(h, "Failed to detect language")
        ELSE HookDispatch([h EXCEPT !.sourceLang = d.lang])

\* Unchanged text taken for changed every time
TextUnchangedNever(message, translatedText) == FALSE

\* line 179: the translation gave the message back as it was
TextUnchanged(message, translatedText) == translatedText = message

\* lines 173-197: translateText has returned
HookTranslated(h, out) ==
    LET t == translateText(out)
    IN  IF t.err # ""
        THEN HookDone(h, "Failed to translate message")
        ELSE IF TextUnchanged(h.post.Message, t.text)
        THEN HookDone(h, "")
        ELSE HookDone([h EXCEPT !.post.Message =
                           Annotated(h.post.Message, h.sourceLang, h.targetLang, t.text)],
                      "")

----------------------------------------------------------------------------
(* HTTP responses *)

\* a ResponseWriter nothing was written to; status 0 is "no header written yet"
EmptyW == [status |-> 0, body |-> <<>>]

\* WriteHeader: only the first call sets the status
WriteHeader(w, code) == IF w.status = 0 THEN [w EXCEPT !.status = code] ELSE w

\* Write: an implicit WriteHeader(200), then the bytes
Write(w, chunk) == [WriteHeader(w, 200) EXCEPT !.body = Append(@, chunk)]

TextChunk(msg) == [kind |-> "text", text |-> msg, json |-> <<>>]
JsonChunk(bytes) == [kind |-> "json", text |-> "", json |-> bytes]

\* http.Error
httpError(w, msg, code) == Write(WriteHeader(w, code), TextChunk(msg))

\* the status the client receives
Status(w) == IF w.status = 0 THEN 200 ELSE w.status

\* json.Marshal of a TranslatedMessage
MarshalTranslated(t) ==
    << <<"id", t.ID>>, <<"post_id", t.PostID>>, <<"source_lang", t.SourceLanguage>>,
       <<"source_text", t.SourceText>>, <<"target_lang", t.TargetLanguage>>,
       <<"translated_text", t.TranslatedText>>, <<"update_at", ToString(t.UpdateAt)>> >>

----------------------------------------------------------------------------
(* ServeHTTP and its routes *)

NoPost == [Message |-> "", UpdateAt |-> 0]

\* r.URL.Query() of a request without parameters
NoQuery == [post_id |-> "", source |-> "", target |-> ""]

IdleReq ==
    [pc |-> "idle", path |-> "", caller |-> "", configured |-> TRUE,
     handler |-> "", w |-> EmptyW, calls |-> <<>>,
     hasInfo |-> FALSE, info |-> ZeroUserInfo,
     query |-> NoQuery,
     postID |-> "", source |-> "", target |-> "", post |-> NoPost]

ReqDone(r) == [r EXCEPT !.pc = "done"]

\* lines 255-259: the configuration check, before routing
Guard(path, caller, configured) ==
    [IdleReq EXCEPT !.path = path, !.caller = caller, !.configured = configured,
                    !.w = IF configured THEN EmptyW
                          ELSE httpError(EmptyW, "This plugin is not configured.", 501)]

\* lines 325-329: getGo calls translateText
GoDispatch(r) ==
    [r EXCEPT !.pc = "translate",
              !.calls = Append(@, Call("translate", r.post.Message, r.source, r.target))]

\* getGo preferring the target language of the caller's stored preference
getGoUsesPreference(r0, postID, source, target) ==
    LET r == [r0 EXCEPT !.handler = "getGo"]
    IN  IF r.caller = ""
        THEN ReqDone([r EXCEPT !.w = httpError(@, "Not authorized to translate post", 401)])
        ELSE LET u == getUserInfo(r.caller, FALSE)
                 tgt == IF u.found THEN u.info.TargetLanguage ELSE target
                 g == [r EXCEPT !.postID = postID, !.source = source, !.target = tgt,
                                !.query = [post_id |-> postID, source |-> source,
                                           target |-> target],
                                !.calls = <<Call("KVGet", r.caller, "", ""),
                                            Call("GetPost", postID, "", "")>>]
             IN  IF postID \notin DOMAIN posts
                 THEN ReqDone([g EXCEPT !.w = httpError(@, "No post to translate", 400)])
                 ELSE LET q == [g EXCEPT !.post = posts[postID]]
                      IN  IF source = "auto"
                          THEN [q EXCEPT !.pc = "detect",
                                         !.calls = Append(@, Call("detect", q.post.Message, "", ""))]
                          ELSE GoDispatch(q)

\* lines 299-323: getGo up to its first remote call
getGo(r0, postID, source, target) ==
    LET r == [r0 EXCEPT !.handler = "getGo"]
    IN  IF r.caller = ""
        THEN ReqDone([r EXCEPT !.w = httpError(@, "Not authorized to translate post", 401)])
        ELSE LET g == [r EXCEPT !.postID = postID, !.source = source, !.target = target,
                                !.query = [post_id |-> postID, source |-> source,
                                           target |-> target],
                                !.calls = Append(@, Call("GetPost", postID, "", ""))]
             IN  IF postID \notin DOMAIN posts
                 THEN ReqDone([g EXCEPT !.w = httpError(@, "No post to translate", 400)])
                 ELSE LET q == [g EXCEPT !.post = posts[postID]]
                      IN  IF source = "auto"
                          THEN [q EXCEPT !.pc = "detect",
                                         !.calls = Append(@, Call("detect", q.post.Message, "", ""))]
                          ELSE GoDispatch(q)

\* GoDetected going on to translate when detection failed
GoDetectedGoesOn(r, out) ==
    GoDispatch([r EXCEPT !.source = detectLanguage(out).lang])

\* lines 317-323: detectLanguage has returned to getGo
GoDetected(r, out) ==
    LET d == detectLanguage(out)
    IN  IF d.err # ""
        THEN ReqDone([r EXCEPT !.w = httpError(@, "Language detection failed", 400)])
        ELSE GoDispatch([r EXCEPT !.source = d.lang])

\* GoTranslated reading the post again for the record
GoTranslatedReadsAgain(r, out) ==
    LET t == translateText(out)
        now == posts[r.postID]
    IN  IF t.err # ""
        THEN ReqDone([r EXCEPT !.w = httpError(@, "Translation failed", 400)])
        ELSE LET translated ==
                     [ID |-> r.postID \o r.source \o r.target \o ToString(now.UpdateAt),
                      PostID |-> r.postID,
                      SourceLanguage |-> r.source,
                      SourceText |-> now.Message,
                      TargetLanguage |-> r.target,
                      TranslatedText |-> t.text,
                      UpdateAt |-> now.UpdateAt]
             IN  ReqDone([r EXCEPT !.w = Write(@, JsonChunk(MarshalTranslated(translated)))])

\* lines 325-342: translateText has returned to getGo
GoTranslated(r, out) ==
    LET t == translateText(out)
    IN  IF t.err # ""
        THEN ReqDone([r EXCEPT !.w = httpError(@, "Translation failed", 400)])
        ELSE LET translated ==
                     [ID |-> r.postID \o r.source \o r.target \o ToString(r.post.UpdateAt),
                      PostID |-> r.postID,
                      SourceLanguage |-> r.source,
                      SourceText |-> r.post.Message,
                      TargetLanguage |-> r.target,
                      TranslatedText |-> t.text,
                      UpdateAt |-> r.post.UpdateAt]
             IN  ReqDone([r EXCEPT !.w = Write(@, JsonChunk(MarshalTranslated(translated)))])

\* getInfo answering a failed lookup with an error status
getInfoReportsError(r0, kvErr) ==
    LET r == [r0 EXCEPT !.handler = "getInfo"]
    IN  IF r.caller = ""
        THEN ReqDone(r)
        ELSE LET u == getUserInfo(r.caller, kvErr)
                 g == [r EXCEPT !.calls = Append(@, Call("KVGet", r.caller, "", ""))]
             IN  IF u.err # ""
                 THEN ReqDone([g EXCEPT !.w = httpError(@, u.err, 400)])
                 ELSE ReqDone([g EXCEPT !.w = Write(@, JsonChunk(Marshal(u.info)))])

\* getInfo
getInfo(r0, kvErr) ==
    LET r == [r0 EXCEPT !.handler = "getInfo"]
    IN  IF r.caller = ""
        THEN ReqDone(r)
        ELSE LET u == getUserInfo(r.caller, kvErr)
                 g == [r EXCEPT !.calls = Append(@, Call("KVGet", r.caller, "", ""))]
             IN  IF u.err # ""
                 THEN ReqDone(g)
                 ELSE ReqDone([g EXCEPT !.w = Write(@, JsonChunk(Marshal(u.info)))])

\* the preference-store part of a result that changed nothing
Unchanged(r) == [req |-> r, store |-> store, events |-> events, kvWrites |-> kvWrites]

\* UserMismatch never finding one
UserMismatchIgnored(info, userID) == FALSE

\* line 381: the body is about another user than the caller
UserMismatch(info, userID) == info.UserID # userID

\* setInfo: body is the request body, <<>> when it decodes to no object
setInfo(r0, body, kvErr) ==
    LET r == [r0 EXCEPT !.handler = "setInfo"]
    IN  IF r.caller = ""
        THEN Unchanged(ReqDone([r EXCEPT !.w = httpError(@, "Not authorized to set info", 401)]))
        ELSE IF body = <<>>
        THEN Unchanged(ReqDone([r EXCEPT !.w = httpError(@, "Invalid parameter: info", 400)]))
        ELSE LET info == Unmarshal(body)
                 g == [r EXCEPT !.hasInfo = TRUE, !.info = info]
             IN  IF IsValid(info) # ""
                 THEN Unchanged(ReqDone([g EXCEPT !.w =
                          httpError(@, "Invalid info: " \o IsValid(info), 400)]))
                 ELSE IF UserMismatch(info, r.caller)
                 THEN Unchanged(ReqDone([g EXCEPT !.w =
                          httpError(@, "Invalid parameter: user mismatch", 400)]))
                 ELSE LET s == setUserInfo(info, kvErr)
                          c == [g EXCEPT !.calls = Append(@, Call("KVSet", info.UserID, "", ""))]
                      IN  IF s.err # ""
                          THEN [req |-> ReqDone([c EXCEPT !.w =
                                            httpError(@, "Failed to set info", 400)]),
                                store |-> s.store, events |-> s.events,
                                kvWrites |-> s.kvWrites]
                          ELSE [req |-> ReqDone([c EXCEPT
                                            !.calls = Append(@, Call("Publish", info.UserID, "", "")),
                                            !.w = Write(@, JsonChunk(Marshal(info)))]),
                                store |-> s.store, events |-> s.events,
                                kvWrites |-> s.kvWrites]

\* http.NotFound
NotFound(r0) ==
    ReqDone([r0 EXCEPT !.handler = "NotFound", !.w = httpError(@, "404 page not found", 404)])

----------------------------------------------------------------------------
(* The state machine *)

IdleCmd == [pc |-> "idle", info |-> ZeroUserInfo, err |-> ""]

\* request bodies: no object, or the JSON of a UserInfo
Bodies == {<<>>} \cup {Marshal(u) : u \in UserInfos}

Posters == {U1, U2}
GoPostIDs == PostIDs \cup {"nopost"}
GoSources == {"auto", "en", "fr"}
GoTargets == {"en", "fr"}

Init ==
    /\ store = [u \in UserIDs |-> <<>>]
    /\ events = <<>>
    /\ kvWrites = 0
    /\ posts = [p \in PostIDs |-> [Message |-> "Hello", UpdateAt |-> 0]]
    /\ hook = IdleHook
    /\ req = IdleReq
    /\ cmd = IdleCmd

\* no finished invocation is waiting to be returned
Quiet == hook.pc # "done" /\ req.pc # "done" /\ cmd.pc # "done"

\* the hook is invoked for a new post
MessageWillBePosted(post, kvErr) ==
    /\ Quiet /\ hook.pc = "idle"
    /\ hook' = HookLookup(post, kvErr)
    /\ UNCHANGED <<store, events, kvWrites, posts, req, cmd>>

HookDetectReturns(out) ==
    /\ Quiet /\ hook.pc = "detect"
    /\ hook' = HookDetected(hook, out)
    /\ UNCHANGED <<store, events, kvWrites, posts, req, cmd>>

HookTranslateReturns(out) ==
    /\ Quiet /\ hook.pc = "translate"
    /\ hook' = HookTranslated(hook, out)
    /\ UNCHANGED <<store, events, kvWrites, posts, req, cmd>>

HookReturn ==
    /\ hook.pc = "done"
    /\ hook' = IdleHook
    /\ UNCHANGED <<store, events, kvWrites, posts, req, cmd>>

\* ServeHTTP for GET /api/go
ServeGo(caller, configured, postID, source, target) ==
    /\ Quiet /\ req.pc = "idle"
    /\ req' = getGo(Guard("/api/go", caller, configured), postID, source, target)
    /\ UNCHANGED <<store, events, kvWrites, posts, hook, cmd>>

GoDetectReturns(out) ==
    /\ Quiet /\ req.pc = "detect"
    /\ req' = GoDetected(req, out)
    /\ UNCHANGED <<store, events, kvWrites, posts, hook, cmd>>

GoTranslateReturns(out) ==
    /\ Quiet /\ req.pc = "translate"
    /\ req' = GoTranslated(req, out)
    /\ UNCHANGED <<store, events, kvWrites, posts, hook, cmd>>

\* ServeHTTP for GET /api/get_info
ServeGetInfo(caller, configured, kvErr) ==
    /\ Quiet /\ req.pc = "idle"
    /\ req' = getInfo(Guard("/api/get_info", caller, configured), kvErr)
    /\ UNCHANGED <<store, events, kvWrites, posts, hook, cmd>>

\* ServeHTTP for POST /api/set_info
ServeSetInfo(caller, configured, body, kvErr) ==
    /\ Quiet /\ req.pc = "idle"
    /\ Len(events) < MaxEvents
    /\ LET s == setInfo(Guard("/api/set_info", caller, configured), body, kvErr)
       IN  /\ req' = s.req
           /\ store' = s.store
           /\ events' = s.events
           /\ kvWrites' = s.kvWrites
    /\ UNCHANGED <<posts, hook, cmd>>

\* ServeHTTP for any other path
ServeOther(caller, configured) ==
    /\ Quiet /\ req.pc = "idle"
    /\ req' = NotFound(Guard("/other", caller, configured))
    /\ UNCHANGED <<store, events, kvWrites, posts, hook, cmd>>

ReqReturn ==
    /\ req.pc = "done"
    /\ req' = IdleReq
    /\ UNCHANGED <<store, events, kvWrites, posts, hook, cmd>>

\* setUserInfo called on its own
SetUserInfoCall(info, kvErr) ==
    /\ Quiet /\ cmd.pc = "idle"
    /\ Len(events) < MaxEvents
    /\ LET s == setUserInfo(info, kvErr)
       IN  /\ cmd' = [pc |-> "done", info |-> info, err |-> s.err]
           /\ store' = s.store
           /\ events' = s.events
           /\ kvWrites' = s.kvWrites
    /\ UNCHANGED <<posts, hook, req>>

CmdReturn ==
    /\ cmd.pc = "done"
    /\ cmd' = IdleCmd
    /\ UNCHANGED <<store, events, kvWrites, posts, hook, req>>

\* the platform: a post is edited
EditPost(p, text) ==
    /\ Quiet
    /\ posts[p].UpdateAt < MaxUpdateAt
    /\ text # posts[p].Message
    /\ posts' = [posts EXCEPT ![p] = [Message |-> text, UpdateAt |-> @.UpdateAt + 1]]
    /\ UNCHANGED <<store, events, kvWrites, hook, req, cmd>>

\* the preferences setUserInfo accepts
ValidInfos == {u \in UserInfos : IsValid(u) = ""}

HookNext ==
    \/ \E u \in Posters, m \in Texts, kvErr \in BOOLEAN :
           MessageWillBePosted([UserId |-> u, Message |-> m], kvErr)
    \/ \E out \in DetectOutcomes : HookDetectReturns(out)
    \/ \E out \in TranslateOutcomes : HookTranslateReturns(out)
    \/ HookReturn

GoNext ==
    \/ \E c \in Callers, ok \in BOOLEAN, p \in GoPostIDs, s \in GoSources, t \in GoTargets :
           ServeGo(c, ok, p, s, t)
    \/ \E out \in DetectOutcomes : GoDetectReturns(out)
    \/ \E out \in TranslateOutcomes : GoTranslateReturns(out)
    \/ ReqReturn
    \/ \E p \in PostIDs, t \in Texts : EditPost(p, t)

PrefsNext ==
    \/ \E c \in Callers, ok \in BOOLEAN, kvErr \in BOOLEAN : ServeGetInfo(c, ok, kvErr)
    \/ \E c \in Callers, ok \in BOOLEAN, b \in Bodies, kvErr \in BOOLEAN :
           ServeSetInfo(c, ok, b, kvErr)
    \/ \E c \in Callers, ok \in BOOLEAN : ServeOther(c, ok)
    \/ ReqReturn
    \/ \E u \in UserInfos, kvErr \in BOOLEAN : SetUserInfoCall(u, kvErr)
    \/ CmdReturn

\* set_info requests of users for their own, valid preference
OwnSetInfo ==
    \E u \in ValidInfos, kvErr \in BOOLEAN : ServeSetInfo(u.UserID, TRUE, Marshal(u), kvErr)

Next == HookNext \/ GoNext \/ PrefsNext

Spec == Init /\ [][Next]_vars

\* the preference endpoints and setUserInfo
SpecPrefs == Init /\ [][PrefsNext]_vars

\* the hook, with users' preference writes in between its steps
SpecHook == Init /\ [][HookNext \/ OwnSetInfo \/ ReqReturn]_vars

\* the on-demand handler, with post edits in between its steps
SpecGo == Init /\ [][GoNext]_vars

\* the handlers of a configured plugin one at a time: the hook, getGo, get_info
\* and users' own set_info
SeqHook == req.pc = "idle" /\ HookNext

SeqGo ==
    /\ hook.pc = "idle"
    /\ \/ \E c \in Callers, p \in GoPostIDs, s \in GoSources, t \in GoTargets :
              ServeGo(c, TRUE, p, s, t)
       \/ \E out \in DetectOutcomes : GoDetectReturns(out)
       \/ \E out \in TranslateOutcomes : GoTranslateReturns(out)

SeqGetInfo ==
    /\ hook.pc = "idle"
    /\ \E c \in Callers, kvErr \in BOOLEAN : ServeGetInfo(c, TRUE, kvErr)

SeqSetInfo == hook.pc = "idle" /\ OwnSetInfo

SeqNext == SeqHook \/ SeqGo \/ SeqGetInfo \/ SeqSetInfo \/ ReqReturn

SpecSeq == Init /\ [][SeqNext]_vars

----------------------------------------------------------------------------
(* Properties *)

\* the handler made a call of this kind
HasCall(calls, op) == \E i \in 1..Len(calls) : calls[i].op = op

\* the last thing written to a response
LastChunk(w) == w.body[Len(w.body)]

\* steps: setUserInfo was called on its own; a set_info request was served
SetCallStep == cmd.pc = "idle" /\ cmd'.pc = "done"
SetInfoStep == req.pc = "idle" /\ req'.pc = "done" /\ req'.handler = "setInfo"

\* a set_info response that carries the stored preference
SetInfoOK(r) == LastChunk(r.w).kind = "json"

\* C1: whatever the preference lookup, the detection and the translation come
\* back with, the hook returns an empty rejection reason.
C1_NeverRejects == hook.pc = "done" => hook.reason = ""

\* C2: a request served while the plugin is not configured is answered 501
\* and no route handler runs for it: no handler is entered, no API or remote
\* call is made.
C2_GuardBeforeRouting ==
    (req.pc # "idle" /\ ~req.configured) =>
        /\ Status(req.w) = 501
        /\ req.handler = ""
        /\ req.calls = <<>>

\* a preference with source = target, or with target "auto"
BadPair(u) ==
    u.SourceLanguage = u.TargetLanguage \/ u.TargetLanguage = "auto"

\* the bodies of set_info's validation failures
ValidationTexts ==
    {"Invalid info: " \o m :
        m \in {"Invalid: user_id field",
               "Invalid: source_language field",
               "Invalid: target_language field",
               "Invalid: source_language must be in a supported language code",
               "Invalid: target_language must be in a supported language code",
               "Invalid: source_language and target_language are equal",
               "Invalid: target_language must not be \"auto\""}}

\* C3: a preference whose source equals its target, or whose target is "auto",
\* is refused with a validation error by setUserInfo, and by set_info (400,
\* "Invalid info: ...", nothing written) for a caller that is signed in,
\* whatever its other fields are.
C3_BadPairRefused ==
    /\ (cmd.pc = "done" /\ BadPair(cmd.info)) => cmd.err = "invalid_user_info"
    /\ (req.pc = "done" /\ req.handler = "setInfo" /\ req.hasInfo /\ BadPair(req.info)) =>
           /\ Status(req.w) >= 400
           /\ req.configured => Status(req.w) = 400
           /\ LastChunk(req.w).kind = "text"
           /\ LastChunk(req.w).text \in ValidationTexts
           /\ ~HasCall(req.calls, "KVSet")

C3_Witness ==
    /\ req.pc = "done" /\ req.handler = "setInfo" /\ req.configured
    /\ req.caller = U1
    /\ req.info = [UserID |-> U1, Activated |-> TRUE,
                   SourceLanguage |-> "en", TargetLanguage |-> "auto"]
    /\ Status(req.w) = 400

\* the store holds the whole of u under u's id and nothing else changed in it,
\* one info_change event for u with u's fields went out to u, and one more
\* write was made
Written(u) ==
    /\ store' = [store EXCEPT ![u.UserID] = store'[u.UserID]]
    /\ Unmarshal(store'[u.UserID]) = u
    /\ events' = Append(events,
                        [event |-> "info_change", user_id |-> u.UserID,
                         activated |-> u.Activated,
                         source_language |-> u.SourceLanguage,
                         target_language |-> u.TargetLanguage,
                         broadcast |-> u.UserID])
    /\ kvWrites' = kvWrites + 1

NothingWritten == UNCHANGED <<store, events, kvWrites>>

\* C4: a call of setUserInfo (on its own or from set_info) either stores the
\* whole record under its user id and publishes exactly one change event for
\* that user with the new fields, or, when it fails, leaves the store as it
\* was and publishes nothing; the number of events published always equals
\* the number of writes that succeeded.
C4_AllOrNothing ==
    /\ [](Len(events) = kvWrites)
    /\ [][/\ SetCallStep =>
                IF cmd'.err = "" THEN Written(cmd'.info) ELSE NothingWritten
          /\ SetInfoStep =>
                IF SetInfoOK(req') THEN Written(req'.info) ELSE NothingWritten]_vars

C4_Witness ==
    /\ cmd.pc = "done" /\ cmd.err = "unable_to_save"
    /\ Len(events) = 1 /\ kvWrites = 1
    /\ store[cmd.info.UserID] # <<>>

\* getUserInfo when the KV store answers
Get(u) == getUserInfo(u, FALSE)

\* this step is a successful set for user u
SetSucceededFor(u) ==
    \/ SetCallStep /\ cmd'.err = "" /\ cmd'.info.UserID = u
    \/ SetInfoStep /\ SetInfoOK(req') /\ req'.info.UserID = u

\* C5: after a successful set of p, getUserInfo(p.UserID) returns p, field for
\* field, and what getUserInfo returns for a user changes in no step but a
\* successful set for that user: the last write wins.
C5_RoundTrip ==
    [][\A u \in UserIDs :
           /\ (SetCallStep /\ cmd'.err = "" /\ cmd'.info.UserID = u) =>
                  Get(u)' = [found |-> TRUE, info |-> cmd'.info, err |-> ""]
           /\ (SetInfoStep /\ SetInfoOK(req') /\ req'.info.UserID = u) =>
                  Get(u)' = [found |-> TRUE, info |-> req'.info, err |-> ""]
           /\ ~SetSucceededFor(u) => Get(u)' = Get(u)]_vars

C5_Witness ==
    /\ cmd.pc = "done" /\ cmd.err = ""
    /\ Len(events) = 2
    /\ events[1].user_id = events[2].user_id
    /\ events[1].activated # events[2].activated
    /\ Get(cmd.info.UserID).found
    /\ Get(cmd.info.UserID).info = cmd.info

\* C6: every record in the store is kept under its own 26-character user id,
\* has a source different from its target, a target other than "auto", and
\* two languages of the catalog.
C6_StoredRecordsValid ==
    \A k \in DOMAIN store :
        store[k] # <<>> =>
            LET u == Unmarshal(store[k])
            IN  /\ u.UserID = k
                /\ Len(k) = 26
                /\ u.SourceLanguage # u.TargetLanguage
                /\ u.TargetLanguage # "auto"
                /\ u.SourceLanguage \in DOMAIN languageCodes
                /\ u.TargetLanguage \in DOMAIN languageCodes

C6_Witness ==
    /\ store[U1] # <<>> /\ store[U2] # <<>>
    /\ Unmarshal(store[U1]).SourceLanguage = "auto"
    /\ ~Unmarshal(store[U2]).Activated

\* a set_info request without a caller, or about another user than its caller
Foreign(r) == r.caller = "" \/ (r.hasInfo /\ r.info.UserID # r.caller)

\* C7: set_info without a caller identity is answered 401, set_info with a
\* body about another user than the caller is answered 400 (on a configured
\* plugin), and neither writes the store or publishes an event; a set_info
\* request changes no record but the one of its caller.
C7_OnlyOwnRecord ==
    /\ []((req.pc = "done" /\ req.handler = "setInfo" /\ Foreign(req)) =>
              /\ Status(req.w) >= 400
              /\ req.configured => Status(req.w) = IF req.caller = "" THEN 401 ELSE 400
              /\ ~HasCall(req.calls, "KVSet")
              /\ ~HasCall(req.calls, "Publish"))
    /\ [][SetInfoStep =>
              /\ Foreign(req') => NothingWritten
              /\ \A u \in UserIDs : store'[u] # store[u] => req'.caller = u]_vars

C7_Witness ==
    /\ req.pc = "done" /\ req.handler = "setInfo" /\ req.configured
    /\ req.caller = U1
    /\ req.info = [UserID |-> U2, Activated |-> TRUE,
                   SourceLanguage |-> "auto", TargetLanguage |-> "en"]
    /\ Status(req.w) = 400
    /\ store[U2] = <<>>

\* C8: when the poster's preference is missing, unreadable or switched off as
\* the hook looks it up, the hook returns at once, with the message as it
\* came in and without a detection or a translation call.
C8_PassThrough ==
    [][(/\ hook.pc = "idle" /\ hook'.pc # "idle"
        /\ \/ ~hook'.found
           \/ store[hook'.post.UserId] = <<>>
           \/ Member(store[hook'.post.UserId], "activated", "false") = "false")
       => /\ hook'.pc = "done"
          /\ hook'.post.Message = hook'.input
          /\ ~HasCall(hook'.calls, "detect")
          /\ ~HasCall(hook'.calls, "translate")]_vars

C8_Witness ==
    /\ hook.pc = "done"
    /\ hook.found /\ ~hook.userInfo.Activated
    /\ hook.post.Message = hook.input
    /\ ~HasCall(hook.calls, "detect") /\ ~HasCall(hook.calls, "translate")

DetectFails(out) == out.credErr \/ out.apiErr \/ out.langs = <<>>
TranslateFails(out) == out.credErr \/ out.apiErr

\* C9: when detection fails, the hook returns the message as it came in and
\* calls no translation; when translation fails, the hook returns the message
\* as it came in.
C9_FailuresPassThrough ==
    [][/\ \A out \in DetectOutcomes :
              (HookDetectReturns(out) /\ DetectFails(out)) =>
                  /\ hook'.pc = "done"
                  /\ hook'.post.Message = hook.input
                  /\ ~HasCall(hook'.calls, "translate")
       /\ \A out \in TranslateOutcomes :
              (HookTranslateReturns(out) /\ TranslateFails(out)) =>
                  /\ hook'.pc = "done"
                  /\ hook'.post.Message = hook.input]_vars

C9_Witness ==
    /\ hook.pc = "done"
    /\ HasCall(hook.calls, "detect") /\ ~HasCall(hook.calls, "translate")
    /\ hook.reason = "Failed to detect language"
    /\ hook.post.Message = hook.input

\* C10: translateText is never called with a source equal to the target, by
\* the hook or by getGo.
C10_SkipA ==
    /\ \A i \in 1..Len(hook.calls) :
           hook.calls[i].op = "translate" => hook.calls[i].b # hook.calls[i].c
    /\ \A i \in 1..Len(req.calls) :
           req.calls[i].op = "translate" => req.calls[i].b # req.calls[i].c

\* the stored value of a member of the poster's record, "" without a record
Stored(u, key) == Member(store[u], key, "")

\* C11: detection is called by the hook only when the poster's stored
\* preference exists, is switched on and has source "auto", and by getGo only
\* for a signed-in caller, an existing post and the parameter source = "auto";
\* with an explicit source, translation is called with that source as it is.
C11_DetectOnlyWhenNeeded ==
    /\ HasCall(hook.calls, "detect") =>
           /\ hook.found
           /\ Stored(hook.post.UserId, "activated") = "true"
           /\ Stored(hook.post.UserId, "source_language") = "auto"
    /\ \A i \in 1..Len(hook.calls) :
           (hook.calls[i].op = "translate"
                /\ Stored(hook.post.UserId, "source_language") # "auto")
           => /\ hook.calls[i].b = Stored(hook.post.UserId, "source_language")
              /\ ~HasCall(hook.calls, "detect")
    /\ HasCall(req.calls, "detect") =>
           /\ req.handler = "getGo"
           /\ req.caller # ""
           /\ req.query.post_id \in DOMAIN posts
           /\ req.query.source = "auto"
    /\ \A i \in 1..Len(req.calls) :
           (req.calls[i].op = "translate" /\ req.query.source # "auto")
           => /\ req.calls[i].b = req.query.source
              /\ req.source = req.query.source
              /\ ~HasCall(req.calls, "detect")

C11_Witness ==
    /\ hook.pc = "done"
    /\ Stored(hook.post.UserId, "source_language") = "fr"
    /\ HasCall(hook.calls, "translate") /\ ~HasCall(hook.calls, "detect")
    /\ hook.post.Message # hook.input

\* the catalog's name of a code, the code itself for a code it does not list
CatalogName(code) ==
    IF code \in DOMAIN languageCodes THEN languageCodes[code] ELSE code

\* C12: when the hook's translation call comes back with a text that differs
\* from the message, the body returned is the original text, "\n\n(Translated: ",
\* the source's name, " → ", the target's name, ")\n" and the translated text,
\* a name being the catalog's or else the raw code; the reason is empty.
C12_AnnotatedBody ==
    [][\A out \in TranslateOutcomes :
           (HookTranslateReturns(out) /\ ~TranslateFails(out)
                /\ out.text # hook.post.Message)
           => /\ hook.post.Message = hook.input
              /\ hook.userInfo.Activated
              /\ hook.sourceLang # hook.targetLang
              /\ hook'.pc = "done"
              /\ hook'.reason = ""
              /\ hook'.post.Message =
                     hook.input \o "\n\n(Translated: "
                         \o CatalogName(hook.sourceLang) \o " → "
                         \o CatalogName(hook.targetLang) \o ")\n" \o out.text]_vars

C12_Witness ==
    /\ hook.pc = "done"
    /\ hook.input = "Hello"
    /\ hook.sourceLang = "xx"
    /\ hook.post.Message = "Hello\n\n(Translated: xx → French)\nBonjour"

\* C13: when the hook's translation call comes back with the very text of the
\* message, the hook returns the body as it came in and an empty reason.
C13_SkipB ==
    [][\A out \in TranslateOutcomes :
           (HookTranslateReturns(out) /\ ~TranslateFails(out)
                /\ out.text = hook.input)
           => /\ hook'.pc = "done"
              /\ hook'.post.Message = hook.input
              /\ hook'.post.UserId = hook.post.UserId
              /\ hook'.reason = ""]_vars

C13_Witness ==
    /\ hook.pc = "done"
    /\ HasCall(hook.calls, "translate")
    /\ hook.reason = ""
    /\ hook.post.Message = hook.input

\* the operations of a call log, in order
Ops(calls) == [i \in 1..Len(calls) |-> calls[i].op]

\* a response that carries a translation record
HasRecord(w) == \E i \in 1..Len(w.body) : w.body[i].kind = "json"

\* C14: getGo goes through caller, post, detection (for source "auto") and
\* translation in this order and stops at the first failure: 401 and no call at
\* all without a caller; 400 and no remote call without the post; 400 and no
\* translation call when detection fails; 400 when translation fails. The
\* record is written only after all of them succeeded, never with an error
\* status (the statuses being those of a configured plugin).
C14_GoStopsAtFirstFailure ==
    /\ [](req.handler = "getGo" =>
            /\ req.caller = "" =>
                   /\ req.pc = "done" /\ req.calls = <<>> /\ ~HasRecord(req.w)
                   /\ req.configured => Status(req.w) = 401
            /\ (req.caller # "" /\ req.query.post_id \notin DOMAIN posts) =>
                   /\ req.pc = "done" /\ Ops(req.calls) = <<"GetPost">>
                   /\ ~HasRecord(req.w)
                   /\ req.configured => Status(req.w) = 400
            /\ Ops(req.calls) \in {<<>>, <<"GetPost">>, <<"GetPost", "detect">>,
                                   <<"GetPost", "translate">>,
                                   <<"GetPost", "detect", "translate">>}
            /\ HasRecord(req.w) =>
                   /\ req.pc = "done" /\ HasCall(req.calls, "translate")
                   /\ req.query.source = "auto" => HasCall(req.calls, "detect")
                   /\ req.configured => Status(req.w) = 200
            /\ (req.configured /\ Status(req.w) >= 400) => ~HasRecord(req.w))
    /\ [][/\ \A out \in DetectOutcomes :
                (GoDetectReturns(out) /\ DetectFails(out)) =>
                    /\ req'.pc = "done" /\ ~HasRecord(req'.w)
                    /\ ~HasCall(req'.calls, "translate")
                    /\ req.configured => Status(req'.w) = 400
          /\ \A out \in TranslateOutcomes :
                GoTranslateReturns(out) =>
                    /\ req'.pc = "done"
                    /\ HasRecord(req'.w) = ~TranslateFails(out)
                    /\ (req.configured /\ TranslateFails(out)) => Status(req'.w) = 400]_vars

C14_Witness ==
    /\ req.pc = "done" /\ req.handler = "getGo" /\ req.configured
    /\ Ops(req.calls) = <<"GetPost", "detect">>
    /\ Status(req.w) = 400

\* the response of get_info that carries user u's stored preference
InfoBody(u) == <<JsonChunk(Marshal(Unmarshal(store[u])))>>

\* C15 as stated: get_info (of a configured plugin) answers with the success
\* status; with an empty body when the caller is not signed in or has no
\* stored preference, and otherwise with the caller's stored preference.
C15_AsStated ==
    (req.pc = "done" /\ req.handler = "getInfo" /\ req.configured) =>
        /\ Status(req.w) = 200
        /\ req.w.body = IF req.caller = "" \/ store[req.caller] = <<>>
                        THEN <<>> ELSE InfoBody(req.caller)

\* C15: get_info (of a configured plugin) answers with the success status; with
\* an empty body when the caller is not signed in, has no stored preference or
\* the store cannot be read, and otherwise with the caller's stored preference;
\* a preference in a get_info response is never another user's.
C15_GetInfo ==
    /\ []((req.pc = "done" /\ req.handler = "getInfo") =>
            \A i \in 1..Len(req.w.body) :
                req.w.body[i].kind = "json" =>
                    /\ req.caller # ""
                    /\ req.w.body[i].json = Marshal(Unmarshal(store[req.caller]))
                    /\ Unmarshal(req.w.body[i].json).UserID = req.caller)
    /\ [][\A c \in Callers, kvErr \in BOOLEAN :
              ServeGetInfo(c, TRUE, kvErr) =>
                  /\ req'.pc = "done"
                  /\ Status(req'.w) = 200
                  /\ req'.w.body = IF c = "" \/ store[c] = <<>> \/ kvErr
                                   THEN <<>> ELSE InfoBody(c)]_vars

C15_Witness ==
    /\ req.pc = "done" /\ req.handler = "getInfo" /\ req.configured
    /\ req.caller = U1
    /\ store[U2] # <<>>
    /\ store[U1] # <<>>
    /\ req.w.body = InfoBody(U1)

\* a step of a get_go request
GoStep ==
    \/ req.pc = "idle" /\ req'.handler = "getGo"
    \/ req.pc \in {"detect", "translate"}

\* C16: getGo makes no call on the preference store and leaves it, and the
\* notifications, as they are; what it asks of the remote capabilities and
\* what it answers is made of the request's parameters and the fetched post
\* only, whatever preference the caller has stored.
C16_GoIgnoresPreferences ==
    /\ [](req.handler = "getGo" =>
            /\ ~HasCall(req.calls, "KVGet")
            /\ ~HasCall(req.calls, "KVSet")
            /\ ~HasCall(req.calls, "Publish")
            /\ \A i \in 1..Len(req.calls) :
                   /\ req.calls[i].op = "detect" => req.calls[i].a = req.post.Message
                   /\ req.calls[i].op = "translate" =>
                          /\ req.calls[i].a = req.post.Message
                          /\ req.query.source # "auto" => req.calls[i].b = req.query.source
                          /\ req.calls[i].c = req.query.target
            /\ HasRecord(req.w) =>
                   /\ Member(LastChunk(req.w).json, "post_id", "") = req.query.post_id
                   /\ Member(LastChunk(req.w).json, "target_lang", "") = req.query.target
                   /\ Member(LastChunk(req.w).json, "source_text", "") = req.post.Message)
    /\ [][GoStep => UNCHANGED <<store, events, kvWrites>>]_vars

C16_Witness ==
    /\ req.pc = "done" /\ req.handler = "getGo" /\ HasRecord(req.w)
    /\ Stored(req.caller, "activated") = "false"
    /\ Stored(req.caller, "target_language") = "en"
    /\ req.query.target = "fr"

\* how many calls of an operation a call log holds
CountCalls(calls, op) == Cardinality({i \in 1..Len(calls) : calls[i].op = op})

\* C17: getGo reads the post once; the text it sends to detection and to
\* translation and the sourceText and updateAt of its record are those of
\* that one read, also when the post is edited while the request is served.
C17_OnePostRead ==
    /\ []((req.handler = "getGo" /\ req.caller # "") =>
            /\ CountCalls(req.calls, "GetPost") = 1
            /\ \A i \in 1..Len(req.calls) :
                   req.calls[i].op \in {"detect", "translate"} =>
                       req.calls[i].a = req.post.Message
            /\ HasRecord(req.w) =>
                   /\ Member(LastChunk(req.w).json, "source_text", "") = req.post.Message
                   /\ Member(LastChunk(req.w).json, "update_at", "")
                          = ToString(req.post.UpdateAt))
    /\ [][/\ (req.pc = "idle" /\ req'.handler = "getGo" /\ req'.pc # "done") =>
                 req'.post = posts[req'.query.post_id]
          /\ req.pc \in {"detect", "translate"} => req'.post = req.post]_vars

C17_Witness ==
    /\ req.pc = "done" /\ req.handler = "getGo" /\ HasRecord(req.w)
    /\ HasCall(req.calls, "detect")
    /\ posts[req.postID].UpdateAt > req.post.UpdateAt
    /\ posts[req.postID].Message # req.post.Message

\* the hook is invoked in this step
HookStarts == hook.pc = "idle" /\ hook'.pc # "idle"

\* C18: an invocation of the hook reads the poster's preference once, as the
\* record stored at that moment, and keeps it: the enabled flag, the source and
\* the target it acts on are the fields of that one record, whatever set_info
\* requests write for the poster while the invocation goes on.
C18_OneSnapshot ==
    /\ [](hook.pc # "idle" =>
            /\ CountCalls(hook.calls, "KVGet") = 1
            /\ (HasCall(hook.calls, "detect") \/ HasCall(hook.calls, "translate")) =>
                   /\ hook.found /\ hook.userInfo.Activated
                   /\ hook.userInfo.UserID = hook.post.UserId
                   /\ IsValid(hook.userInfo) = ""
            /\ HasCall(hook.calls, "detect") =>
                   hook.userInfo.SourceLanguage = "auto"
            /\ \A i \in 1..Len(hook.calls) :
                   hook.calls[i].op = "translate" =>
                       /\ hook.calls[i].c = hook.userInfo.TargetLanguage
                       /\ hook.userInfo.SourceLanguage # "auto" =>
                              hook.calls[i].b = hook.userInfo.SourceLanguage)
    /\ [][/\ (HookStarts /\ hook'.found) =>
                 /\ store[hook'.post.UserId] # <<>>
                 /\ hook'.userInfo = Unmarshal(store[hook'.post.UserId])
          /\ hook.pc \in {"detect", "translate"} =>
                 /\ hook'.found = hook.found
                 /\ hook'.userInfo = hook.userInfo]_vars

C18_Witness ==
    /\ hook.pc = "done" /\ HasCall(hook.calls, "detect")
    /\ hook.post.Message # hook.input
    /\ hook.userInfo.TargetLanguage = "fr"
    /\ Stored(hook.post.UserId, "target_language") = "en"
    /\ Stored(hook.post.UserId, "source_language") = "fr"

\* the hook runs for a poster whose preference is switched on with source "auto"
HookAuto ==
    /\ hook.pc # "idle" /\ hook.found
    /\ hook.userInfo.Activated /\ hook.userInfo.SourceLanguage = "auto"

\* C19: for a preference that is switched on with source "auto", the hook
\* calls detection once, with the whole message, before any translation call;
\* when detection answers a code d other than the target, it then calls
\* translation once, with the message, d and the target, and when detection
\* fails or answers the target, it calls translation not at all.
C19_DetectThenTranslate ==
    /\ [](HookAuto =>
            /\ Ops(hook.calls) \in {<<"KVGet", "detect">>,
                                    <<"KVGet", "detect", "translate">>}
            /\ hook.calls[2].a = hook.input
            /\ hook.pc = "detect" <=> Len(hook.calls) = 2 /\ hook.pc # "done"
            /\ hook.pc = "translate" => Len(hook.calls) = 3)
    /\ [][/\ \A out \in DetectOutcomes :
                HookDetectReturns(out) =>
                    IF ~DetectFails(out)
                           /\ detectLanguage(out).lang # hook.userInfo.TargetLanguage
                    THEN /\ hook'.pc = "translate"
                         /\ hook'.calls =
                                Append(hook.calls,
                                       Call("translate", hook.input,
                                            detectLanguage(out).lang,
                                            hook.userInfo.TargetLanguage))
                    ELSE hook'.pc = "done" /\ hook'.calls = hook.calls
          /\ \A out \in TranslateOutcomes :
                HookTranslateReturns(out) =>
                    hook'.pc = "done" /\ hook'.calls = hook.calls]_vars

C19_Witness ==
    /\ hook.pc = "done" /\ hook.userInfo.SourceLanguage = "auto"
    /\ hook.input = "Bonjour"
    /\ hook.calls = <<Call("KVGet", U1, "", ""), Call("detect", "Bonjour", "", ""),
                      Call("translate", "Bonjour", "fr", "en")>>

\* a step of the hook; a get_info request is served
HookStep == hook' # hook
GetInfoStep == req.pc = "idle" /\ req'.handler = "getInfo"

\* C20: the steps of the hook and the get_info requests leave the store, the
\* notifications and the write count as they are and call neither KVSet nor
\* publish; the store or the notifications change only in a set_info request
\* that succeeds, which changes no record but the one of the user it is for
\* and publishes one notification, for that user.
C20_OnlySetInfoWrites ==
    /\ [](/\ ~HasCall(hook.calls, "KVSet") /\ ~HasCall(hook.calls, "Publish")
          /\ req.handler = "getInfo" =>
                 ~HasCall(req.calls, "KVSet") /\ ~HasCall(req.calls, "Publish"))
    /\ [][/\ (HookStep \/ GetInfoStep) => NothingWritten
          /\ ~NothingWritten =>
                 /\ SetInfoStep /\ SetInfoOK(req')
                 /\ \A u \in UserIDs :
                        store'[u] # store[u] => u = req'.info.UserID
                 /\ Len(events') = Len(events) + 1
                 /\ events'[Len(events')].user_id = req'.info.UserID
          /\ (SetInfoStep /\ ~SetInfoOK(req')) => NothingWritten]_vars

C20_Witness ==
    /\ req.pc = "done" /\ req.handler = "setInfo" /\ SetInfoOK(req)
    /\ req.info.UserID = U2
    /\ store[U1] # <<>>
    /\ Len(events) = 2

====
